---- MODULE Spec2Model ----
(***************************************************************************)
(* locate.py of the add-principles skill: an ordered chain of four lookup  *)
(* strategies (env, config, default, cwd) that searches a filesystem for   *)
(* principles.md and prints one JSON document.                             *)
(*                                                                         *)
(* A path is the sequence of its segments (pathlib's parts without the     *)
(* root), an optional value is a sequence of length 0 (None) or 1.         *)
(***************************************************************************)
EXTENDS Naturals, Sequences, FiniteSets, TLC

VARIABLES
    environ,        \* os.environ restricted to ADD_PRINCIPLES_PATH: None or <<string>>
    fs,             \* the filesystem: path -> node, for the paths that exist
    cwd,            \* the process's working directory: None (removed) or <<path>>
    listing,        \* the order in which the skills directory was last listed
    pc,             \* position of main(): start, loop, returned, raised, exited
    idx,            \* index of the next strategy in locate()'s for loop
    checked_paths,  \* locate()'s local list
    result,         \* what locate() returned: None or <<dict>>
    exception,      \* the exception on its way to main()'s handler: None or <<str(e)>>
    printed,        \* standard output: the text of each print() call, in order
    exit_code       \* None while running, <<code>> after sys.exit

vars == <<environ, fs, cwd, listing, pc, idx, checked_paths, result, exception,
          printed, exit_code>>

\* ============ configuration constants (locate.py 22-25) ============
ENV_VAR_NAME == "ADD_PRINCIPLES_PATH"
CONFIG_FILE_NAME == "config.toml"
DEFAULT_SKILL_NAME == "add-principles"
TARGET_FILE == "principles.md"

None == <<>>
Some(x) == <<x>>

\* ============ bounds of the model ============
\* Symbolic links followed while resolving one path before the lookup fails with
\* ELOOP.
MaxLinks == 2
\* Entries of the default skills directory.
MaxEntries == 2

\* ============ strings ============
\* s.startswith(prefix)
StartsWith(s, prefix) ==
    Len(prefix) <= Len(s) /\ SubSeq(s, 1, Len(prefix)) = prefix

\* needle in s
Contains(s, needle) ==
    \E k \in 1..(Len(s) + 1) :
        k + Len(needle) - 1 <= Len(s) /\ SubSeq(s, k, k + Len(needle) - 1) = needle

\* First index of the one-character string ch in s, 0 when absent.
RECURSIVE IndexFrom(_, _, _)
IndexFrom(s, ch, k) ==
    IF k > Len(s) THEN 0
    ELSE IF SubSeq(s, k, k) = ch THEN k
    ELSE IndexFrom(s, ch, k + 1)

IndexOf(s, ch) == IndexFrom(s, ch, 1)

\* s.strip(chars), chars a set of one-character strings
RECURSIVE LStrip(_, _)
LStrip(s, chars) ==
    IF Len(s) > 0 /\ SubSeq(s, 1, 1) \in chars
    THEN LStrip(SubSeq(s, 2, Len(s)), chars)
    ELSE s

RECURSIVE RStrip(_, _)
RStrip(s, chars) ==
    IF Len(s) > 0 /\ SubSeq(s, Len(s), Len(s)) \in chars
    THEN RStrip(SubSeq(s, 1, Len(s) - 1), chars)
    ELSE s

Strip(s, chars) == RStrip(LStrip(s, chars), chars)

Whitespace == {" ", "\t"}

\* ============ paths ============
\* str(path) of an absolute path
RECURSIVE Str(_)
Str(p) == IF p = <<>> THEN "" ELSE Str(SubSeq(p, 1, Len(p) - 1)) \o "/" \o p[Len(p)]

\* Path(s) for a string: the segments between the slashes, empty ones dropped
RECURSIVE PathOf(_)
PathOf(s) ==
    LET k == IndexOf(s, "/") IN
    IF s = "" THEN <<>>
    ELSE IF k = 0 THEN <<s>>
    ELSE IF k = 1 THEN PathOf(SubSeq(s, 2, Len(s)))
    ELSE <<SubSeq(s, 1, k - 1)>> \o PathOf(SubSeq(s, k + 1, Len(s)))

Name(p) == IF p = <<>> THEN "" ELSE p[Len(p)]
Parent(p) == IF p = <<>> THEN <<>> ELSE SubSeq(p, 1, Len(p) - 1)
Join(p, name) == Append(p, name)

\* Path.home()
Home == <<"home", "u">>

\* Path.expanduser(): a leading ~ becomes the home directory
ExpandUser(p) == IF p # <<>> /\ p[1] = "~" THEN Home \o Tail(p) ELSE p

\* ============ filesystem ============
FileNode == [kind |-> "file", target |-> <<>>, lines |-> <<>>, listable |-> TRUE]
TextNode(ls) == [kind |-> "file", target |-> <<>>, lines |-> ls, listable |-> TRUE]
DirNode == [kind |-> "dir", target |-> <<>>, lines |-> <<>>, listable |-> TRUE]
SealedDirNode == [kind |-> "dir", target |-> <<>>, lines |-> <<>>, listable |-> FALSE]
LinkNode(t) == [kind |-> "link", target |-> t, lines |-> <<>>, listable |-> TRUE]

\* os.path.realpath(p, strict=False): follows every link, keeps what does not
\* exist; "loop" when more than MaxLinks links were followed.
RECURSIVE RealPathFrom(_, _, _)
RealPathFrom(cur, rest, fuel) ==
    IF rest = <<>> THEN [status |-> "ok", path |-> cur]
    ELSE LET p == Append(cur, Head(rest)) IN
         IF p \notin DOMAIN fs THEN [status |-> "ok", path |-> cur \o rest]
         ELSE IF fs[p].kind = "link"
              THEN IF fuel = 0 THEN [status |-> "loop", path |-> p]
                   ELSE RealPathFrom(<<>>, fs[p].target \o Tail(rest), fuel - 1)
              ELSE RealPathFrom(p, Tail(rest), fuel)

RealPath(p) == RealPathFrom(<<>>, p, MaxLinks)

\* os.stat(p): the node the path leads to, following links; None for ENOENT,
\* ENOTDIR and ELOOP (the errors pathlib's exists/is_file/is_dir swallow).
Stat(p) ==
    LET r == RealPath(p) IN
    IF r.status = "ok" /\ (r.path = <<>> \/ r.path \in DOMAIN fs)
    THEN IF r.path = <<>> THEN Some(DirNode) ELSE Some(fs[r.path])
    ELSE None

\* os.lstat(p): as Stat, the last segment not followed
LStat(p) ==
    LET d == RealPath(Parent(p))
        q == Join(d.path, Name(p))
    IN  IF p # <<>> /\ d.status = "ok" /\ q \in DOMAIN fs THEN Some(fs[q]) ELSE None

exists(p) == Stat(p) # None
is_file(p) == Stat(p) # None /\ Stat(p)[1].kind = "file"
is_dir(p) == Stat(p) # None /\ Stat(p)[1].kind = "dir"
is_symlink(p) == LStat(p) # None /\ LStat(p)[1].kind = "link"

\* Path.resolve(): raises RuntimeError("Symlink loop from ...") on a loop
resolve(p) ==
    LET r == RealPath(p) IN
    IF r.status = "loop"
    THEN [raised |-> TRUE, path |-> <<>>, exc |-> "Symlink loop from '" \o Str(p) \o "'"]
    ELSE [raised |-> FALSE, path |-> r.path, exc |-> ""]

\* ============ outcomes of a strategy ============
\* (strategy_name, path | None, error_message | None), or an exception that
\* leaves the strategy function.
Outcome(n, p, e) == [name |-> n, path |-> p, error |-> e, raised |-> FALSE, exc |-> ""]
Raises(n, msg) == [name |-> n, path |-> None, error |-> None, raised |-> TRUE, exc |-> msg]

\* ============ check_principles_exists ============
check_principles_exists(base_path) ==
    IF Name(base_path) = TARGET_FILE /\ is_file(base_path) THEN Some(base_path)
    ELSE IF is_dir(base_path) /\ is_file(Join(base_path, TARGET_FILE))
         THEN Some(Join(base_path, TARGET_FILE))
         ELSE None

\* ============ message texts (the source's Chinese texts, in English) ============
MsgEnvVar == "environment variable "
MsgNotExist == " points to a path that does not exist: "
MsgNotUnder == " path does not contain "
MsgConfigNotFound == "not found in the configured skills_dir: "
MsgConfigRead == "reading the configuration file failed: "
MsgDefaultNotFound == "not found in the default path: "
MsgCwdNotFound == "not found in the current directory and its subdirectories: "
MsgAllFailed == "cannot find principles.md, no lookup strategy succeeded"
MsgSuggestion == "check that the add-principles skill is installed; to set the location: export "
MsgCrash == "the locate script raised: "
MsgCrashSuggestion == "check Python version >= 3.6 and that locate.py is complete"

\* strategy_env_override with a path that does not exist passed over in silence.
strategy_env_override_silent ==
    LET env_path == environ IN
    IF env_path = None \/ env_path[1] = "" THEN Outcome("env", None, None)
    ELSE LET r == resolve(ExpandUser(PathOf(env_path[1]))) IN
         IF r.raised THEN Raises("env", r.exc)
         ELSE IF ~exists(r.path) THEN Outcome("env", None, None)
              ELSE LET found == check_principles_exists(r.path) IN
                   IF found # None THEN Outcome("env", found, None)
                   ELSE Outcome("env", None,
                          Some(MsgEnvVar \o ENV_VAR_NAME \o MsgNotUnder
                               \o TARGET_FILE \o ": " \o Str(r.path)))

\* ============ strategy 1: environment override ============
strategy_env_override ==
    LET env_path == environ IN
    IF env_path = None \/ env_path[1] = "" THEN Outcome("env", None, None)
    ELSE LET r == resolve(ExpandUser(PathOf(env_path[1]))) IN
         IF r.raised THEN Raises("env", r.exc)
         ELSE IF ~exists(r.path)
              THEN Outcome("env", None,
                     Some(MsgEnvVar \o ENV_VAR_NAME \o MsgNotExist \o Str(r.path)))
              ELSE LET found == check_principles_exists(r.path) IN
                   IF found # None THEN Outcome("env", found, None)
                   ELSE Outcome("env", None,
                          Some(MsgEnvVar \o ENV_VAR_NAME \o MsgNotUnder
                               \o TARGET_FILE \o ": " \o Str(r.path)))

\* ============ parse_toml_value ============
\* content is given as its lines (content.split("\n")).
LineValue(line) ==
    LET value == Strip(SubSeq(line, IndexOf(line, "=") + 1, Len(line)), Whitespace)
    IN  Strip(Strip(value, {"\""}), {"'"})

LineMatches(line, key) ==
    LET eq == IndexOf(line, "=")
        lhs == IF eq = 0 THEN line ELSE SubSeq(line, 1, eq - 1)
    IN  StartsWith(line, key) \/ Contains(lhs, "." \o key)

RECURSIVE parse_toml_value(_, _)
parse_toml_value(content, key) ==
    IF content = <<>> THEN None
    ELSE LET line == Strip(Head(content), Whitespace) IN
         IF LineMatches(line, key) /\ IndexOf(line, "=") # 0
         THEN Some(LineValue(line))
         ELSE parse_toml_value(Tail(content), key)

\* ============ strategy 2: the configuration file ============
ConfigHome == Join(Home, ".kimi")
ConfigPath == Join(ConfigHome, CONFIG_FILE_NAME)

\* config_path.read_text(): IsADirectoryError when the path is a directory
read_text(p) ==
    IF is_file(p) THEN [raised |-> FALSE, lines |-> Stat(p)[1].lines, exc |-> ""]
    ELSE [raised |-> TRUE, lines |-> <<>>,
          exc |-> "[Errno 21] Is a directory: '" \o Str(p) \o "'"]

\* strategy_config_file reporting a missing configuration file.
strategy_config_file_loud ==
    IF ~exists(ConfigPath)
    THEN Outcome("config", None, Some(MsgConfigRead \o Str(ConfigPath)))
    ELSE LET content == read_text(ConfigPath)
             skills_dir_str == parse_toml_value(content.lines, "skills_dir")
             skill_path == Join(PathOf(skills_dir_str[1]), DEFAULT_SKILL_NAME)
             found == check_principles_exists(skill_path)
         IN  IF content.raised THEN Outcome("config", None, Some(MsgConfigRead))
             ELSE IF skills_dir_str = None \/ skills_dir_str[1] = ""
             THEN Outcome("config", None, None)
             ELSE IF found # None THEN Outcome("config", found, None)
             ELSE Outcome("config", None, Some(MsgConfigNotFound \o Str(skill_path)))

strategy_config_file ==
    IF ~exists(ConfigPath) THEN Outcome("config", None, None)
    ELSE LET content == read_text(ConfigPath) IN
         IF content.raised
         THEN Outcome("config", None, Some(MsgConfigRead \o content.exc))
         ELSE LET skills_dir_str == parse_toml_value(content.lines, "skills_dir") IN
              IF skills_dir_str = None \/ skills_dir_str[1] = ""
              THEN Outcome("config", None, None)
              ELSE LET skills_dir == resolve(ExpandUser(PathOf(skills_dir_str[1]))) IN
                   IF skills_dir.raised
                   THEN Outcome("config", None,
                          Some(MsgConfigRead \o skills_dir.exc))
                   ELSE LET skill_path == Join(skills_dir.path, DEFAULT_SKILL_NAME)
                            found == check_principles_exists(skill_path)
                        IN  IF found # None THEN Outcome("config", found, None)
                            ELSE Outcome("config", None,
                                   Some(MsgConfigNotFound \o Str(skill_path)))

\* ============ strategy 3: the platform's default path ============
\* get_platform_default_skills_dir(), the branch of macOS and Linux
get_platform_default_skills_dir == Join(Join(Home, ".kimi"), "skills")

\* FuzzyMatch without the test of the item's name.
RECURSIVE FuzzyMatchAnyName(_, _)
FuzzyMatchAnyName(skills_dir, names) ==
    IF names = <<>> THEN None
    ELSE LET item == Join(skills_dir, Head(names))
             found == IF is_dir(item) \/ is_symlink(item)
                      THEN check_principles_exists(item)
                      ELSE None
         IN  IF found # None THEN found ELSE FuzzyMatchAnyName(skills_dir, Tail(names))

\* The loop over skills_dir.iterdir(): the first listed item that is a directory
\* or a link, whose name contains the skill's name and where the probe matches.
RECURSIVE FuzzyMatch(_, _)
FuzzyMatch(skills_dir, names) ==
    IF names = <<>> THEN None
    ELSE LET item == Join(skills_dir, Head(names))
             found == IF (is_dir(item) \/ is_symlink(item))
                         /\ Contains(Name(item), DEFAULT_SKILL_NAME)
                      THEN check_principles_exists(item)
                      ELSE None
         IN  IF found # None THEN found ELSE FuzzyMatch(skills_dir, Tail(names))

\* skills_dir.iterdir() raises NotADirectoryError on a file and PermissionError
\* on a directory that may not be read.
IterdirRaises(d) == ~is_dir(d) \/ ~Stat(d)[1].listable
IterdirError(d) ==
    IF ~is_dir(d) THEN "[Errno 20] Not a directory: '" \o Str(d) \o "'"
    ELSE "[Errno 13] Permission denied: '" \o Str(d) \o "'"

strategy_default_platform_path ==
    LET skills_dir == get_platform_default_skills_dir
        skill_path == Join(skills_dir, DEFAULT_SKILL_NAME)
        direct == check_principles_exists(skill_path)
        real_path == resolve(skill_path)
        linked == IF (exists(skill_path) \/ is_symlink(skill_path)) /\ ~real_path.raised
                  THEN check_principles_exists(real_path.path)
                  ELSE None
    IN  IF direct # None THEN Outcome("default", direct, None)
        ELSE IF linked # None THEN Outcome("default", linked, None)
        ELSE IF exists(skills_dir) /\ IterdirRaises(skills_dir)
        THEN Raises("default", IterdirError(skills_dir))
        ELSE LET fuzzy == IF exists(skills_dir) THEN FuzzyMatch(skills_dir, listing)
                          ELSE None
             IN  IF fuzzy # None THEN Outcome("default", fuzzy, None)
                 ELSE Outcome("default", None, Some(MsgDefaultNotFound \o Str(skill_path)))

\* ============ strategy 4: the working directory ============
strategy_cwd_fallback ==
    IF cwd = None     \* Path.cwd(): FileNotFoundError
    THEN Raises("cwd", "[Errno 2] No such file or directory")
    ELSE LET dir == cwd[1]
             skill_path == Join(dir, DEFAULT_SKILL_NAME)
             found == check_principles_exists(skill_path)
             direct_file == Join(dir, TARGET_FILE)
             parent == Parent(dir)
         IN  IF found # None THEN Outcome("cwd", found, None)
             ELSE IF exists(direct_file) THEN Outcome("cwd", Some(direct_file), None)
             ELSE IF exists(Join(parent, TARGET_FILE))
                  THEN Outcome("cwd", Some(Join(parent, TARGET_FILE)), None)
             ELSE Outcome("cwd", None, Some(MsgCwdNotFound \o Str(dir)))

\* ============ locate ============
\* The list with the configuration file tried before the override variable.
strategies_config_first == <<"config", "env", "default", "cwd">>

strategies == <<"env", "config", "default", "cwd">>

\* strategy_func()
Call(strategy_func) ==
    CASE strategy_func = "env" -> strategy_env_override
      [] strategy_func = "config" -> strategy_config_file
      [] strategy_func = "default" -> strategy_default_platform_path
      [] strategy_func = "cwd" -> strategy_cwd_fallback

\* Entry with found taken from the absence of a diagnostic.
EntryFoundUnlessError(o) ==
    [strategy |-> o.name,
     path |-> IF o.path # None THEN Some(Str(o.path[1])) ELSE None,
     found |-> o.error = None,
     error |-> o.error]

\* The dict appended to checked_paths for one outcome.
Entry(o) ==
    [strategy |-> o.name,
     path |-> IF o.path # None THEN Some(Str(o.path[1])) ELSE None,
     found |-> o.path # None,
     error |-> o.error]

\* Appended that records only the strategies that had something to say.
AppendedUnlessSilent(cp, o) ==
    IF o.path = None /\ o.error = None THEN cp ELSE Append(cp, Entry(o))

Appended(cp, o) == Append(cp, Entry(o))

\* "if path:" (a Path object is always true, None is false)
Found(o) == o.path # None

SuccessResult(o, cp) ==
    [success |-> TRUE, path |-> Str(o.path[1]), found_via |-> o.name,
     checked_paths |-> cp]

\* Python's truth value of an optional string
Truthy(e) == e # None /\ e[1] # ""

IsError(p) == Truthy(p.error)

\* ErrorsDetail without the filter.
ErrorsDetailAll(cp) == cp

\* errors = [p for p in checked_paths if p.get("error")]
ErrorsDetail(cp) == SelectSeq(cp, IsError)

FailureResult(cp) ==
    [success |-> FALSE, error |-> MsgAllFailed, checked_paths |-> cp,
     suggestion |-> MsgSuggestion \o ENV_VAR_NAME \o "=/path/to/principles.md",
     errors_detail |-> ErrorsDetail(cp)]

\* main() enters locate(): the list of strategies and an empty checked_paths
MainCallsLocate ==
    /\ pc = "start"
    /\ pc' = "loop"
    /\ idx' = 1
    /\ checked_paths' = <<>>
    /\ UNCHANGED <<environ, fs, cwd, listing, result, exception, printed, exit_code>>

\* One iteration of "for strategy_func in strategies"
Iteration ==
    /\ pc = "loop"
    /\ idx <= Len(strategies)
    /\ LET o == Call(strategies[idx]) IN
       IF o.raised
       THEN /\ pc' = "raised"
            /\ exception' = Some(o.exc)
            /\ UNCHANGED <<idx, checked_paths, result>>
       ELSE LET appended == Appended(checked_paths, o) IN
            /\ checked_paths' = appended
            /\ exception' = None
            /\ IF Found(o)
               THEN /\ result' = Some(SuccessResult(o, appended))
                    /\ pc' = "returned"
                    /\ idx' = idx
               ELSE /\ idx' = idx + 1
                    /\ UNCHANGED <<pc, result>>
    /\ UNCHANGED <<environ, fs, cwd, listing, printed, exit_code>>

TryFirst ==
    /\ idx = 1
    /\ Iteration

TrySecond ==
    /\ idx = 2
    /\ Iteration

TryThird ==
    /\ idx = 3
    /\ Iteration

TryFourth ==
    /\ idx = 4
    /\ Iteration

\* The loop ended without a path: the failure result
LocateFails ==
    /\ pc = "loop"
    /\ idx > Len(strategies)
    /\ result' = Some(FailureResult(checked_paths))
    /\ pc' = "returned"
    /\ UNCHANGED <<environ, fs, cwd, listing, idx, checked_paths, exception, printed,
                   exit_code>>

\* ============ main ============
\* json.dumps(..., ensure_ascii=False, indent=2) of the values the documents hold.
\* No text of the model holds a character that JSON escapes.
JsonString(x) == "\"" \o x \o "\""
JsonOptional(x) == IF x = None THEN "null" ELSE JsonString(x[1])
JsonBool(b) == IF b THEN "true" ELSE "false"

JsonEntry(e) ==
    "    {\n"
    \o "      \"strategy\": " \o JsonString(e.strategy) \o ",\n"
    \o "      \"path\": " \o JsonOptional(e.path) \o ",\n"
    \o "      \"found\": " \o JsonBool(e.found) \o ",\n"
    \o "      \"error\": " \o JsonOptional(e.error) \o "\n"
    \o "    }"

RECURSIVE JsonEntries(_)
JsonEntries(cp) ==
    IF Len(cp) = 1 THEN JsonEntry(cp[1])
    ELSE JsonEntry(Head(cp)) \o ",\n" \o JsonEntries(Tail(cp))

JsonList(cp) == IF cp = <<>> THEN "[]" ELSE "[\n" \o JsonEntries(cp) \o "\n  ]"

\* json.dumps of a result of locate(): the keys in the order locate() sets them
dumps_result(r) ==
    IF r.success
    THEN "{\n  \"success\": true,\n"
         \o "  \"path\": " \o JsonString(r.path) \o ",\n"
         \o "  \"found_via\": " \o JsonString(r.found_via) \o ",\n"
         \o "  \"checked_paths\": " \o JsonList(r.checked_paths) \o "\n}"
    ELSE "{\n  \"success\": false,\n"
         \o "  \"error\": " \o JsonString(r.error) \o ",\n"
         \o "  \"checked_paths\": " \o JsonList(r.checked_paths) \o ",\n"
         \o "  \"suggestion\": " \o JsonString(r.suggestion) \o ",\n"
         \o "  \"errors_detail\": " \o JsonList(r.errors_detail) \o "\n}"

\* json.dumps(error_result, ...) of main()'s handler
dumps_error_result(e) ==
    "{\n  \"success\": false,\n"
    \o "  \"error\": " \o JsonString(MsgCrash \o e) \o ",\n"
    \o "  \"suggestion\": " \o JsonString(MsgCrashSuggestion) \o "\n}"

\* print(text)
print_line(out, text) == Append(out, text \o "\n")

\* ExitStatus that reports success whatever the result.
ExitStatusZero(res) == 0

ExitStatus(res) == IF res.success THEN 0 ELSE 1

\* print(json.dumps(result, ...)); sys.exit(0 if result.get("success") else 1)
MainPrints ==
    /\ pc = "returned"
    /\ printed' = print_line(printed, dumps_result(result[1]))
    /\ exit_code' = Some(ExitStatus(result[1]))
    /\ pc' = "exited"
    /\ UNCHANGED <<environ, fs, cwd, listing, idx, checked_paths, result, exception>>

\* except Exception as e: print the error result, sys.exit(1)
MainExcept ==
    /\ pc = "raised"
    /\ printed' = print_line(printed, dumps_error_result(exception[1]))
    /\ exit_code' = Some(1)
    /\ pc' = "exited"
    /\ UNCHANGED <<environ, fs, cwd, listing, idx, checked_paths, result, exception>>

\* ============ the environments a run can start in ============
\* Each of the four places a strategy reads (the override variable and what it
\* names, the configuration file and the directory it names, the default skills
\* directory, the working directory) is drawn from the states listed here. A run
\* starts with one place in any of its states and the three others in one of their
\* main states (nothing there, something there without the document, the document
\* there, or a state in which the strategy raises).
Empty == [p \in {} |-> DirNode]
Dirs(ps) == [p \in ps |-> DirNode]
WithDoc(d) == Dirs({d}) @@ (Join(d, TARGET_FILE) :> FileNode)
Orders(S) ==
    {q \in [1..Cardinality(S) -> S] : \A a, b \in 1..Cardinality(S) : q[a] = q[b] => a = b}

EnvDir == <<"e">>
EnvMain ==
    { [value |-> None, files |-> Empty],
      [value |-> Some("/e"), files |-> Empty],
      [value |-> Some("/e"), files |-> WithDoc(EnvDir)] }

EnvScenarios ==
    EnvMain
    \cup {[value |-> v, files |-> Empty] :
            v \in {Some(""), Some("~/.kimi/skills/add-principles-kimi")}}
    \cup {[value |-> Some("/e"), files |-> Dirs({EnvDir})]}
    \cup {[value |-> Some("/e/principles.md"), files |-> f] :
            f \in {Empty, WithDoc(EnvDir), Dirs({EnvDir, Join(EnvDir, TARGET_FILE)})}}

ConfiguredDir == <<"c">>
ConfiguredSkill == Join(ConfiguredDir, DEFAULT_SKILL_NAME)
ConfigFile(c) == Dirs({ConfigHome}) @@ (ConfigPath :> TextNode(c))
PlainConfig == <<"# kimi", "skills_dir = \"/c\"">>

ConfigMain ==
    { Empty,
      ConfigFile(PlainConfig),
      ConfigFile(PlainConfig) @@ Dirs({ConfiguredDir}) @@ WithDoc(ConfiguredSkill) }

ConfigContents ==
    { PlainConfig,
      <<"[paths]", "  paths.skills_dir = '/c'">>,
      <<"skills_dir_backup = /b", "skills_dir = /c">>,
      <<"skills_dir = ~/.kimi/skills">>,
      <<"model = \"k2\"">>,
      <<"skills_dir", "default_model = 1">>,
      <<"skills_dir = \"\"">> }

ConfigScenarios ==
    ConfigMain
    \cup {Dirs({ConfigHome, ConfigPath})}
    \cup {ConfigFile(c) @@ f :
            c \in ConfigContents,
            f \in {Dirs({ConfiguredDir, ConfiguredSkill}),
                   Dirs({ConfiguredDir}) @@ WithDoc(ConfiguredSkill)}}

SkillsDir == get_platform_default_skills_dir
SkillPath == Join(SkillsDir, DEFAULT_SKILL_NAME)
LinkedDir == <<"t">>
\* What may be installed under the name add-principles.
SkillKinds ==
    { Dirs({SkillPath}),
      WithDoc(SkillPath),
      (SkillPath :> LinkNode(LinkedDir)) @@ WithDoc(LinkedDir),
      (SkillPath :> LinkNode(Join(LinkedDir, TARGET_FILE))) @@ WithDoc(LinkedDir),
      (SkillPath :> LinkNode(SkillPath)),
      (SkillPath :> LinkNode(<<"gone">>)) }

\* The other entries a skills directory may hold, by name.
OtherNames ==
    {"add-principles-kimi", "add-principles-main", "add-principles-old",
     "add-principles.bak", "notes"}

OtherFiles(n) ==
    CASE n = "add-principles-old" -> Dirs({Join(SkillsDir, n)})
      [] n = "add-principles.bak" -> (Join(SkillsDir, n) :> FileNode)
      [] OTHER -> WithDoc(Join(SkillsDir, n))

RECURSIVE AllFiles(_)
AllFiles(S) ==
    IF S = {} THEN Empty
    ELSE LET n == CHOOSE x \in S : TRUE IN OtherFiles(n) @@ AllFiles(S \ {n})

\* The directory's entries: at most MaxEntries names and the files under them.
SkillsEntries ==
    {[names |-> S, files |-> AllFiles(S)] :
        S \in {T \in SUBSET OtherNames : Cardinality(T) <= MaxEntries}}
    \cup {[names |-> S \cup {DEFAULT_SKILL_NAME}, files |-> k @@ AllFiles(S)] :
            S \in {T \in SUBSET OtherNames : Cardinality(T) < MaxEntries},
            k \in SkillKinds}

Sealed(e) ==
    [files |-> Dirs({ConfigHome}) @@ (SkillsDir :> SealedDirNode) @@ e.files,
     order |-> <<>>]

Listed(e, q) == [files |-> Dirs({ConfigHome, SkillsDir}) @@ e.files, order |-> q]

SkillsMain ==
    { [files |-> Empty, order |-> <<>>],
      Listed([names |-> {DEFAULT_SKILL_NAME}, files |-> (SkillPath :> LinkNode(SkillPath))],
             <<DEFAULT_SKILL_NAME>>),
      Listed([names |-> {"add-principles-kimi"},
              files |-> OtherFiles("add-principles-kimi")], <<"add-principles-kimi">>),
      Sealed([names |-> {}, files |-> Empty]) }

SkillsScenarios ==
    SkillsMain
    \cup {Sealed(e) : e \in SkillsEntries}
    \cup UNION {{Listed(e, q) : q \in Orders(e.names)} : e \in SkillsEntries}

WorkParent == <<"w">>
WorkDir == Join(WorkParent, "cwd")
CwdMain ==
    { [dir |-> None, files |-> Empty],
      [dir |-> Some(WorkDir), files |-> Dirs({WorkDir})],
      [dir |-> Some(WorkDir), files |-> WithDoc(WorkDir)] }

CwdScenarios ==
    CwdMain
    \cup {[dir |-> Some(WorkDir), files |-> Dirs({WorkDir}) @@ a @@ b @@ c] :
            a \in {Empty, Dirs({Join(WorkDir, DEFAULT_SKILL_NAME)}),
                   WithDoc(Join(WorkDir, DEFAULT_SKILL_NAME))},
            b \in {Empty, Join(WorkDir, TARGET_FILE) :> FileNode,
                   Join(WorkDir, TARGET_FILE) :> DirNode},
            c \in {Empty, Join(WorkParent, TARGET_FILE) :> FileNode,
                   Join(WorkParent, TARGET_FILE) :> DirNode}}

Scenarios ==
    (EnvScenarios \X ConfigMain \X SkillsMain \X CwdMain)
    \cup (EnvMain \X ConfigScenarios \X SkillsMain \X CwdMain)
    \cup (EnvMain \X ConfigMain \X SkillsScenarios \X CwdMain)
    \cup (EnvMain \X ConfigMain \X SkillsMain \X CwdScenarios)

Init ==
    \E sc \in Scenarios :
        /\ environ = sc[1].value
        /\ fs = Dirs({<<"home">>, Home, WorkParent})
                  @@ sc[1].files @@ sc[2] @@ sc[3].files @@ sc[4].files
        /\ cwd = sc[4].dir
        /\ listing = sc[3].order
        /\ pc = "start"
        /\ idx = 0
        /\ checked_paths = <<>>
        /\ result = None
        /\ exception = None
        /\ printed = <<>>
        /\ exit_code = None

Next ==
    \/ MainCallsLocate
    \/ TryFirst
    \/ TrySecond
    \/ TryThird
    \/ TryFourth
    \/ LocateFails
    \/ MainPrints
    \/ MainExcept

Spec == Init /\ [][Next]_vars

\* ============ what the claims speak of ============
\* The order of the strategies as the specification states it.
Order == <<"env", "config", "default", "cwd">>
Rank(n) == CHOOSE k \in 1..Len(Order) : Order[k] = n
StrategyNames(cp) == [k \in 1..Len(cp) |-> cp[k].strategy]
Returned == result # None
Last(cp) == cp[Len(cp)]

\* The document is directly reachable from p: p is a regular file named
\* principles.md, or a directory holding such a file.
DocumentAt(p) ==
    \/ Name(p) = TARGET_FILE /\ is_file(p)
    \/ is_dir(p) /\ is_file(Join(p, TARGET_FILE))

EnvSet == environ # None /\ environ[1] # ""
EnvTarget == resolve(ExpandUser(PathOf(environ[1])))
EnvResolves == EnvSet /\ ~EnvTarget.raised /\ DocumentAt(EnvTarget.path)
ConfigWouldFind == exists(ConfigPath) /\ DocumentAt(ConfiguredSkill)

\* C1: the strategies run in the order env, config, default, cwd; while the loop
\* runs no earlier strategy has found a path (a success ends the run at once);
\* and when the override variable resolves to the document the result is a
\* success found via env with exactly one checked_paths entry, whatever the
\* other places hold.
C1_ShortCircuit ==
    /\ StrategyNames(checked_paths) = SubSeq(Order, 1, Len(checked_paths))
    /\ pc = "loop" => \A k \in 1..Len(checked_paths) : ~checked_paths[k].found
    /\ EnvResolves =>
          /\ pc # "raised"
          /\ Len(checked_paths) <= 1
          /\ pc \in {"returned", "exited"} =>
                /\ result[1].success
                /\ result[1].found_via = "env"
                /\ Len(result[1].checked_paths) = 1

C1_Witness ==
    /\ EnvResolves
    /\ ConfigWouldFind
    /\ pc = "exited"
    /\ result[1].found_via = "env"

\* C2: in every result locate() returns, the strategy names of checked_paths are
\* a prefix of [env, config, default, cwd]; the length is the rank of the winning
\* strategy on success and 4 on failure.
C2_Prefix ==
    Returned =>
        LET r == result[1] IN
        /\ StrategyNames(r.checked_paths) = SubSeq(Order, 1, Len(r.checked_paths))
        /\ r.success => Len(r.checked_paths) = Rank(r.found_via)
        /\ ~r.success => Len(r.checked_paths) = 4

C2_Witness ==
    /\ Returned
    /\ result[1].success
    /\ result[1].found_via = "default"
    /\ Len(result[1].checked_paths) = 3

\* The state a strategy depends on is absent.
EnvAbsent == environ = None
ConfigAbsent == ConfigPath \notin DOMAIN fs
DefaultAbsent == SkillsDir \notin DOMAIN fs
CwdAbsent ==
    /\ cwd # None
    /\ Join(cwd[1], DEFAULT_SKILL_NAME) \notin DOMAIN fs
    /\ Join(cwd[1], TARGET_FILE) \notin DOMAIN fs
    /\ Join(Parent(cwd[1]), TARGET_FILE) \notin DOMAIN fs

Absent(n) ==
    CASE n = "env" -> EnvAbsent
      [] n = "config" -> ConfigAbsent
      [] n = "default" -> DefaultAbsent
      [] n = "cwd" -> CwdAbsent

Silent(e) == ~e.found /\ e.path = None /\ e.error = None
InErrorsDetail(e) ==
    Returned /\ ~result[1].success
    /\ \E k \in 1..Len(result[1].errors_detail) : result[1].errors_detail[k] = e

\* C3 as stated: each of the four strategies is silent when its state is absent.
C3_AllFourSilent ==
    \A k \in 1..Len(checked_paths) :
        Absent(checked_paths[k].strategy) =>
            Silent(checked_paths[k]) /\ ~InErrorsDetail(checked_paths[k])

\* C3 amended: env and config are silent when the override variable is unset or
\* empty, resp. the configuration file is missing; default and cwd are not: with
\* the skills directory absent, resp. nothing relevant in the working directory,
\* their entry carries a diagnostic naming the conventional path, resp. the
\* working directory, and a failure result lists it in errors_detail.
C3_EnvConfigSilent ==
    \A k \in 1..Len(checked_paths) :
        LET e == checked_paths[k] IN
        /\ e.strategy = "env" /\ ~EnvSet => Silent(e) /\ ~InErrorsDetail(e)
        /\ e.strategy = "config" /\ ConfigAbsent => Silent(e) /\ ~InErrorsDetail(e)
        /\ e.strategy = "default" /\ DefaultAbsent =>
              /\ ~e.found
              /\ e.error = Some(MsgDefaultNotFound \o Str(SkillPath))
              /\ Returned /\ ~result[1].success => InErrorsDetail(e)
        /\ e.strategy = "cwd" /\ CwdAbsent =>
              /\ ~e.found
              /\ e.error = Some(MsgCwdNotFound \o Str(cwd[1]))
              /\ Returned /\ ~result[1].success => InErrorsDetail(e)

C3_Witness ==
    /\ EnvAbsent /\ ConfigAbsent /\ DefaultAbsent /\ CwdAbsent
    /\ pc = "exited"
    /\ Len(result[1].errors_detail) = 2

\* C4 as stated: no exception of a filesystem operation leaves a strategy; the
\* chain goes on and locate() returns a result with an entry for that strategy.
C4_NoStrategyRaises ==
    /\ pc # "raised"
    /\ pc = "exited" => Returned

\* The steps main() has taken, read from its position.
Progress ==
    CASE pc = "start" -> 0
      [] pc = "loop" -> idx
      [] pc \in {"returned", "raised"} -> Len(strategies) + 2
      [] pc = "exited" -> Len(strategies) + 3

\* A step of main() is defined at the position it is at.
CanStep ==
    \/ pc = "start"
    \/ pc = "loop" /\ idx \in 1..(Len(strategies) + 1)
    \/ pc \in {"returned", "raised"}

\* The printed text is a JSON object whose first member is success.
SaysSuccess(text) == StartsWith(text, "{\n  \"success\": true,\n")
SaysFailure(text) == StartsWith(text, "{\n  \"success\": false,\n")
ClosesObject(text) == Len(text) > 3 /\ SubSeq(text, Len(text) - 2, Len(text)) = "\n}\n"

C5_Exit ==
    /\ pc # "exited" => printed = <<>> /\ exit_code = None /\ CanStep
    /\ pc = "exited" =>
          /\ Len(printed) = 1
          /\ ClosesObject(printed[1])
          /\ SaysSuccess(printed[1]) \/ SaysFailure(printed[1])
          /\ exit_code \in {Some(0), Some(1)}
          /\ exit_code = Some(0) <=> SaysSuccess(printed[1])
          /\ Returned => (SaysSuccess(printed[1]) <=> result[1].success)
          /\ ~Returned => SaysFailure(printed[1]) /\ exit_code = Some(1)

HasDiagnostic(e) == e.error # None
WithDiagnostic(cp) == SelectSeq(cp, HasDiagnostic)

\* C6: a failure result has the fixed message, all 4 entries, none found, and
\* errors_detail is the subsequence of the entries with a non-null diagnostic.
C6_Failure ==
    /\ Returned /\ ~result[1].success =>
          LET r == result[1] IN
          /\ r.error = MsgAllFailed
          /\ Len(r.checked_paths) = 4
          /\ r.checked_paths = checked_paths
          /\ \A k \in 1..4 : ~r.checked_paths[k].found
          /\ r.errors_detail = WithDiagnostic(r.checked_paths)
    /\ pc = "loop" /\ idx > 4 => \A k \in 1..Len(checked_paths) : ~checked_paths[k].found

C6_Witness ==
    /\ Returned
    /\ ~result[1].success
    /\ result[1].checked_paths[1].error # None
    /\ Silent(result[1].checked_paths[2])
    /\ Len(result[1].errors_detail) = 3

\* The env strategy has run to its end.
EnvTried == pc \notin {"start", "raised"} /\ ~(pc = "loop" /\ idx = 1)

\* The override variable names a path that does not exist, or one that exists
\* and from which the document is not reachable.
EnvMisses == EnvSet /\ ~EnvTarget.raised /\ ~DocumentAt(EnvTarget.path)

\* C7: with the override variable set to a path that does not exist or that holds
\* no document, the env entry has no path and a diagnostic naming the variable
\* and the resolved path; the chain goes on with config, and a later strategy may
\* still succeed, the env diagnostic staying first in checked_paths.
C7_EnvDiagnostic ==
    EnvMisses =>
        /\ pc # "raised" \/ idx > 1
        /\ pc = "loop" /\ idx = 2 => Len(checked_paths) = 1
        /\ Len(checked_paths) >= 1 =>
              LET e == checked_paths[1] IN
              /\ e.strategy = "env" /\ ~e.found /\ e.path = None
              /\ e.error # None
              /\ Contains(e.error[1], ENV_VAR_NAME)
              /\ Contains(e.error[1], Str(EnvTarget.path))
        /\ EnvTried => Len(checked_paths) >= 1
        /\ Returned =>
              /\ result[1].checked_paths[1] = checked_paths[1]
              /\ result[1].success => result[1].found_via \in {"config", "default", "cwd"}

C7_Witness ==
    /\ EnvMisses
    /\ ~exists(EnvTarget.path)
    /\ Returned
    /\ result[1].success
    /\ result[1].found_via = "config"
    /\ result[1].checked_paths[1].error # None

\* The three steps of the platform-convention strategy, each from the Probe.
ListedItem(k) == Join(SkillsDir, listing[k])
Candidate(k) ==
    /\ is_dir(ListedItem(k)) \/ is_symlink(ListedItem(k))
    /\ Contains(listing[k], DEFAULT_SKILL_NAME)
    /\ check_principles_exists(ListedItem(k)) # None

DefaultExpected ==
    LET real == resolve(SkillPath)
        hits == {k \in 1..Len(listing) : Candidate(k)}
    IN  IF check_principles_exists(SkillPath) # None
        THEN check_principles_exists(SkillPath)
        ELSE IF (exists(SkillPath) \/ is_symlink(SkillPath)) /\ ~real.raised
                /\ check_principles_exists(real.path) # None
        THEN check_principles_exists(real.path)
        ELSE IF hits # {}
        THEN check_principles_exists(ListedItem(CHOOSE k \in hits : \A j \in hits : k <= j))
        ELSE None

\* The skills directory can be listed: it is absent, or a readable directory.
SkillsListable == ~exists(SkillsDir) \/ (is_dir(SkillsDir) /\ Stat(SkillsDir)[1].listable)
SuffixedInstall ==
    /\ SkillPath \notin DOMAIN fs
    /\ SkillsListable
    /\ \E k \in 1..Len(listing) :
          /\ listing[k] # DEFAULT_SKILL_NAME
          /\ Contains(listing[k], DEFAULT_SKILL_NAME)
          /\ is_dir(ListedItem(k))
          /\ is_file(Join(ListedItem(k), TARGET_FILE))

\* C8: the platform-convention strategy returns the first match of, in this
\* order, the Probe on the conventional path, the Probe on its real target, the
\* Probe on the listed children that are directories or links and whose name
\* contains add-principles, in listing order; it returns the diagnostic naming
\* the conventional path only when none matches. A suffixed install holding the
\* document makes it succeed when the conventional path is absent.
C8_DefaultOrder ==
    /\ \A k \in 1..Len(checked_paths) :
          LET e == checked_paths[k] IN
          e.strategy = "default" =>
              /\ DefaultExpected # None =>
                    /\ e.found /\ e.error = None
                    /\ e.path = Some(Str(DefaultExpected[1]))
                    /\ Returned =>
                          /\ result[1].success
                          /\ result[1].found_via = "default"
                          /\ result[1].path = Str(DefaultExpected[1])
              /\ DefaultExpected = None =>
                    /\ ~e.found /\ e.path = None
                    /\ e.error = Some(MsgDefaultNotFound \o Str(SkillPath))
    /\ SuffixedInstall =>
          /\ ~(pc = "loop" /\ idx > 3)
          /\ ~(pc = "raised" /\ idx = 3)
          /\ Len(checked_paths) >= 3 =>
                /\ checked_paths[3].found
                /\ Returned => result[1].found_via = "default"

C8_Witness ==
    /\ SuffixedInstall
    /\ listing = <<"add-principles-old", "add-principles-main", "add-principles-kimi">>
          \/ listing = <<"add-principles-main", "add-principles-kimi">>
    /\ Returned
    /\ result[1].found_via = "default"
    /\ result[1].path = Str(Join(Join(SkillsDir, "add-principles-main"), TARGET_FILE))

\* C9 as stated: the path of a success designates a regular file named
\* principles.md.
C9_SuccessIsRegularFile ==
    Returned /\ result[1].success =>
        /\ Name(PathOf(result[1].path)) = TARGET_FILE
        /\ is_file(PathOf(result[1].path))

\* C10: in every entry found is true exactly when the path is non-null, and a
\* path and a diagnostic never come together; only the last entry can be found;
\* a success carries the path and strategy of that last entry, a failure has no
\* found entry.
C10_Entries ==
    /\ \A k \in 1..Len(checked_paths) :
          LET e == checked_paths[k] IN
          /\ e.found <=> e.path # None
          /\ ~(e.path # None /\ e.error # None)
          /\ e.found => k = Len(checked_paths)
    /\ Returned =>
          LET r == result[1] IN
          /\ r.checked_paths = checked_paths
          /\ r.success =>
                /\ Last(r.checked_paths).found
                /\ Last(r.checked_paths).path = Some(r.path)
                /\ Last(r.checked_paths).strategy = r.found_via
          /\ ~r.success => \A k \in 1..Len(r.checked_paths) : ~r.checked_paths[k].found

C10_Witness ==
    /\ Returned
    /\ result[1].success
    /\ Len(result[1].checked_paths) = 4
    /\ result[1].checked_paths[2].error # None
    /\ Silent(result[1].checked_paths[1])

====
